---- MODULE Spec2Model ----
(***************************************************************************)
(* Model of the two Streamlit scripts of data-startups-1:                  *)
(*   app.py  - schema check, pre-processing, global statistics, age and    *)
(*             amount cross-tabulations, per-theme filters;                *)
(*   app2.py - yearly synthesis, sector synthesis, combined filters,       *)
(*             filtered metrics, per-sector detail.                        *)
(* One run of a script is one behaviour: the script is executed top to     *)
(* bottom, every widget value being an input of the step that reads it.    *)
(*                                                                         *)
(* Numbers.  A pandas float is the record [nan, t]: t is the value in      *)
(* tenths (one decimal digit of fixed point), nan the NaN marker.  A raw   *)
(* spreadsheet cell is [k, t] with k in {"num", "nan", "txt"}: a number,   *)
(* an empty cell, or text that is not a number.  A quotient (mean,         *)
(* percentage) is [k, n, d]: the rational n/d, or NaN.                     *)
(***************************************************************************)
EXTENDS Integers, Sequences, FiniteSets, TLC

VARIABLES
    prog,             \* which script runs: "app" or "app2"
    pc,               \* position in the script
    columns,          \* df.columns of the uploaded table
    df,               \* the table, a sequence of rows (index = position)
    erreur,           \* missing_cols shown by st.error / the KeyError raised
    stats,            \* app.py: stats[annee]
    annee_ref,        \* app.py: the reference year column chosen by radio
    appel,            \* app.py: which analyse_par_filtre call comes next
    section,          \* the filter column of the section being displayed
    choix,            \* the radio value of the section being displayed
    retenus,          \* df_filtre / df_exoendo / filtre: retained row indices
    affiche,          \* which tables the current section has displayed
    table_age,        \* app.py: table_age[annee][label]
    df_tranches,      \* app.py: df_tranches[annee][label]
    df_tranches_pct,  \* app.py: df_tranches_pct[annee][label]
    synthese,         \* app2.py: the yearly synthesis table
    synthese_filiere, \* app2.py: the sector synthesis table
    selection,        \* app2.py: the values of the four filter widgets
    montant_total,    \* app2.py: filtered total
    montant_moyen,    \* app2.py: filtered mean
    tableau           \* app2.py: detail tables, tableau[filiere][cat][annee]

vars == <<prog, pc, columns, df, erreur, stats, annee_ref, appel, section,
          choix, retenus, affiche, table_age, df_tranches, df_tranches_pct,
          synthese, synthese_filiere, selection, montant_total,
          montant_moyen, tableau>>

-----------------------------------------------------------------------------
(* Bounds of the model *)

MaxRows == 2

-----------------------------------------------------------------------------
(* Numbers *)

Num(v) == [nan |-> FALSE, t |-> 10 * v]
Dec(t) == [nan |-> FALSE, t |-> t]
NaN == [nan |-> TRUE, t |-> 0]

CellNum(v) == [k |-> "num", t |-> 10 * v]
CellDec(t) == [k |-> "num", t |-> t]
CellVide == [k |-> "nan", t |-> 0]
CellTexte == [k |-> "txt", t |-> 0]

QNaN == [k |-> "nan", n |-> 0, d |-> 1]
Q(n, d) == [k |-> "num", n |-> n, d |-> d]

RECURSIVE SumSeq(_)
SumSeq(s) == IF s = <<>> THEN 0 ELSE Head(s) + SumSeq(Tail(s))

Range(s) == {s[i] : i \in DOMAIN s}

\* df[col] > 0 on one float: NaN compares False
Gt0(x) == ~x.nan /\ x.t > 0

\* float subtraction: NaN propagates
Moins(a, b) == IF a.nan \/ b.nan THEN NaN ELSE Dec(a.t - b.t)

\* pd.to_numeric(..., errors='coerce') on one cell
ToNumeric(c) == IF c.k = "num" THEN Dec(c.t) ELSE NaN

\* .fillna(0) on one float
Fillna0(x) == IF x.nan THEN Num(0) ELSE x

\* .astype(int) on one float without NaN: truncation toward zero
AsType_int(x) == IF x.t >= 0 THEN x.t \div 10 ELSE -((-x.t) \div 10)

\* round(q, 2), in hundredths, ties to even
Round2(q) ==
    LET fl == 100 * (q.n \div q.d) + (100 * (q.n % q.d)) \div q.d
        rem == (100 * (q.n % q.d)) % q.d
    IN  IF 2 * rem > q.d THEN fl + 1
        ELSE IF 2 * rem = q.d /\ fl % 2 = 1 THEN fl + 1
        ELSE fl

-----------------------------------------------------------------------------
(* Columns *)

ANNEE_RCS == "Annee RCS"
ANNEE_INCUB == "Annee entree incubation"
ANNEE_PRIMO == "Annee de primolevee"
INDUS == "Indus+Bioeco"
NUMERIQUE == "Numerique"
SANTE == "Sante"
EXOGENE == "EXOGENE"
ENDOGENE == "ENDOGENE"
DEEPTECH_BPI == "Le projet est-il labellise Deeptech par la BPI ?"
LIEN == "Lien recherche publique fr?"
DEEPTECH == "Deeptech"
ECART_RCS == "Ecart RCS -> levee"
ECART_INCUB == "Ecart entree incubation -> levee"

annees_levee == <<2021, 2022, 2023, 2024>>
Annees == Range(annees_levee)

\* f"Montant {annee} (si >100K)"
ColMontant(annee) ==
    CASE annee = 2021 -> "Montant 2021 (si >100K)"
      [] annee = 2022 -> "Montant 2022 (si >100K)"
      [] annee = 2023 -> "Montant 2023 (si >100K)"
      [] annee = 2024 -> "Montant 2024 (si >100K)"

year_cols == [i \in 1..4 |-> ColMontant(annees_levee[i])]

ColsAnnee == <<ANNEE_RCS, ANNEE_INCUB, ANNEE_PRIMO>>
ColsFlag == <<INDUS, NUMERIQUE, SANTE, EXOGENE, ENDOGENE, DEEPTECH_BPI, LIEN>>

required_columns == ColsAnnee \o year_cols \o ColsFlag

-----------------------------------------------------------------------------
(* Bucket schemes.  An edge is [inf, t]: inf = -1 or 1 for -np.inf and     *)
(* np.inf, 0 for the finite edge of t tenths.                              *)

MoinsInf == [inf |-> -1, t |-> 0]
PlusInf == [inf |-> 1, t |-> 0]
Borne(v) == [inf |-> 0, t |-> 10 * v]

age_bins_labels == <<"<1 an", "1-2 ans", "2-3 ans", ">3 ans">>
age_bins_edges == <<MoinsInf, Borne(1), Borne(2), Borne(3), PlusInf>>

bins_labels == <<"<500k", "500k-1M", "1M-2M", "2M-5M", ">5M">>
bins_edges == <<MoinsInf, Borne(500000), Borne(1000000), Borne(2000000),
                Borne(5000000), PlusInf>>

\* the missing category pd.cut gives a value outside every bin, or NaN
SansTranche == "NaN"

\* edge <= x, for a finite float x
EdgeLe(e, x) == e.inf = -1 \/ (e.inf = 0 /\ e.t <= x.t)

\* pd.cut with right=True: ids = bins.searchsorted(x, side="left")
CutDroiteFermee(x, edges, labels) ==
    IF x.nan THEN SansTranche
    ELSE LET ids == Cardinality({j \in DOMAIN edges :
                         EdgeLe(edges[j], x)
                         /\ ~(edges[j].inf = 0 /\ edges[j].t = x.t)})
         IN  IF ids = 0 \/ ids = Len(edges) THEN SansTranche
             ELSE labels[ids]

\* pd.cut after a fillna that sends the unknown value below every edge
CutNaNPremier(x, edges, labels) ==
    IF x.nan THEN labels[1]
    ELSE LET ids == Cardinality({j \in DOMAIN edges : EdgeLe(edges[j], x)})
         IN  IF ids = 0 \/ ids = Len(edges) THEN SansTranche
             ELSE labels[ids]

\* pd.cut(x, bins=edges, labels=labels, right=False) on one value:
\* ids = bins.searchsorted(x, side="right"); NaN, ids = 0 and
\* ids = len(bins) give the missing category, else labels[ids - 1]
Cut(x, edges, labels) ==
    IF x.nan THEN SansTranche
    ELSE LET ids == Cardinality({j \in DOMAIN edges : EdgeLe(edges[j], x)})
         IN  IF ids = 0 \/ ids = Len(edges) THEN SansTranche
             ELSE labels[ids]

\* presence of a label instead of its number of occurrences
ValueCountsPresence(tranches, labels) ==
    [l \in Range(labels) |->
        IF \E i \in DOMAIN tranches : tranches[i] = l THEN 1 ELSE 0]

\* tranches.value_counts().reindex(labels, fill_value=0)
ValueCounts(tranches, labels) ==
    [l \in Range(labels) |->
        Cardinality({i \in DOMAIN tranches : tranches[i] = l})]

\* rows of d among `rows` with d[col] > 0, in order
Masque(d, rows, col) == SelectSeq(rows, LAMBDA i : Gt0(d[i][col]))

\* table_age: one column per funding year
TableAge(d, rows, ref) ==
    [annee \in Annees |->
        LET mask_lev == Masque(d, rows, ColMontant(annee))
            ages == [j \in DOMAIN mask_lev |->
                        Moins(Num(annee), d[mask_lev[j]][ref])]
            tranches == [j \in DOMAIN ages |->
                            Cut(ages[j], age_bins_edges, age_bins_labels)]
        IN  ValueCounts(tranches, age_bins_labels)]

\* df_tranches: one column per funding year
TableTranches(d, rows) ==
    [annee \in Annees |->
        LET mask_lev == Masque(d, rows, ColMontant(annee))
            tranches == [j \in DOMAIN mask_lev |->
                            Cut(d[mask_lev[j]][ColMontant(annee)],
                                bins_edges, bins_labels)]
        IN  ValueCounts(tranches, bins_labels)]

\* df.sum(axis=0) for one column of a count table
ColSum(col, labels) == SumSeq([i \in DOMAIN labels |-> col[labels[i]]])

\* one cell of df.div(total): 0/0 is NaN
DivQ(c, total) == IF total = 0 THEN QNaN ELSE Q(c, total)

\* the quotient left as it is
SansFillnaQ(q) == q

\* .fillna(0) on one quotient
FillnaQ(q) == IF q.k = "nan" THEN Q(0, 1) ELSE q

\* q * 100: NaN stays NaN
Fois100(q) == IF q.k = "nan" THEN QNaN ELSE Q(100 * q.n, q.d)

\* df_tranches.div(df_tranches.sum(axis=0), axis=1).fillna(0) * 100
Pct(tab, labels) ==
    [annee \in DOMAIN tab |->
        LET total == ColSum(tab[annee], labels)
        IN  [l \in DOMAIN tab[annee] |->
                Fois100(FillnaQ(DivQ(tab[annee][l], total)))]]

-----------------------------------------------------------------------------------------------------------------------------------------------------
(* Uploaded tables.  A raw row gives one cell per column.  The rows of an  *)
(* uploaded table are drawn from a fixed set of sample rows: amounts on    *)
(* and around every bucket edge, empty and textual cells, negative and     *)
(* fractional values, ages on the edges 1, 2, 3 and below 0, flags 0, 1,   *)
(* 2 and 1.5.                                                              *)

\* one row from its cells in the order of required_columns
RawRow(cells) ==
    [c \in Range(required_columns) |->
        cells[CHOOSE i \in DOMAIN required_columns : required_columns[i] = c]]

\* rcs, incubation, first round | 2021..2024 |
\* Indus, Numerique, Sante, EXOGENE, ENDOGENE, Deeptech BPI, Lien
RawRows ==
    { RawRow(<<CellNum(2020), CellNum(2021), CellNum(2021),
               CellNum(600000), CellNum(0), CellVide, CellNum(1200000),
               CellNum(1), CellNum(0), CellNum(0), CellNum(1), CellNum(0),
               CellNum(1), CellNum(0)>>),
      RawRow(<<CellVide, CellNum(2022), CellTexte,
               CellTexte, CellNum(500000), CellDec(4999999), CellNum(5000000),
               CellNum(0), CellNum(1), CellVide, CellNum(0), CellNum(1),
               CellNum(2), CellDec(15)>>),
      RawRow(<<CellNum(2018), CellTexte, CellNum(2022),
               CellNum(1000000), CellNum(2000000), CellNum(6000000), CellNum(-5),
               CellNum(0), CellTexte, CellNum(1), CellNum(1), CellNum(1),
               CellNum(0), CellNum(2)>>),
      RawRow(<<CellNum(2021), CellNum(2020), CellNum(2023),
               CellNum(0), CellVide, CellNum(0), CellTexte,
               CellNum(0), CellNum(0), CellNum(0), CellNum(0), CellNum(0),
               CellNum(0), CellNum(0)>>),
      RawRow(<<CellNum(2019), CellNum(2019), CellNum(2020),
               CellNum(499999), CellNum(999999), CellNum(1999999), CellNum(4999999),
               CellNum(1), CellNum(1), CellNum(0), CellNum(0), CellNum(1),
               CellNum(1), CellNum(1)>>),
      RawRow(<<CellNum(2022), CellVide, CellNum(2021),
               CellNum(500000), CellNum(1000000), CellNum(2000000), CellNum(5000000),
               CellNum(0), CellNum(0), CellNum(1), CellNum(1), CellNum(0),
               CellNum(0), CellVide>>),
      RawRow(<<CellTexte, CellDec(20215), CellNum(2021),
               CellNum(7000000), CellNum(600000), CellNum(0), CellNum(0),
               CellNum(2), CellNum(1), CellNum(0), CellVide, CellTexte,
               CellDec(19), CellNum(-1)>>),
      RawRow(<<CellNum(2023), CellNum(2024), CellNum(2020),
               CellVide, CellNum(0), CellNum(300000), CellDec(5),
               CellNum(0), CellNum(0), CellDec(9), CellNum(0), CellNum(2),
               CellVide, CellNum(1)>>) }

\* tables of 0..MaxRows rows
Tables(rows) == UNION {[1..n -> rows] : n \in 0..MaxRows}

\* columns an uploaded table may lack
ColonnesAbsentes == SUBSET {ANNEE_RCS, NUMERIQUE, DEEPTECH_BPI}

Universe == Range(required_columns) \cup {DEEPTECH}

-----
(* app.py *)

\* missing_cols = [c for c in required_columns if c not in df.columns]
MissingCols(cols) == SelectSeq(required_columns, LAMBDA c : c \notin cols)

\* the three pre-processing loops, on one row
PreTraitementRow(r) ==
    [c \in DOMAIN r |->
        IF c \in Range(ColsAnnee) THEN ToNumeric(r[c])
        ELSE IF c \in Range(year_cols) THEN Fillna0(ToNumeric(r[c]))
        ELSE AsType_int(Fillna0(ToNumeric(r[c])))]

PreTraitement(raw) == [i \in DOMAIN raw |-> PreTraitementRow(raw[i])]

\* df["Ecart ..."] = df["Annee de primolevee"] - df[...]
AvecEcarts(d) ==
    [i \in DOMAIN d |->
        [c \in DOMAIN d[i] \cup {ECART_RCS, ECART_INCUB} |->
            IF c = ECART_RCS THEN Moins(d[i][ANNEE_PRIMO], d[i][ANNEE_RCS])
            ELSE IF c = ECART_INCUB
            THEN Moins(d[i][ANNEE_PRIMO], d[i][ANNEE_INCUB])
            ELSE d[i][c]]]

TousLesRangs(d) == [i \in DOMAIN d |-> i]

\* Series.mean(): NaN skipped, NaN when nothing is left
Mean(xs) ==
    LET ok == SelectSeq(xs, LAMBDA x : ~x.nan)
    IN  IF Len(ok) = 0 THEN QNaN
        ELSE Q(SumSeq([j \in DOMAIN ok |-> ok[j].t]), 10 * Len(ok))

\* stats[annee]
StatsAnnee(d, annee) ==
    LET col == ColMontant(annee)
        mask == Masque(d, TousLesRangs(d), col)
        nb_projets == Len(mask)
        somme == SumSeq([j \in DOMAIN mask |-> d[mask[j]][col].t])
        ecart_moyen ==
            IF nb_projets > 0
            THEN Mean([j \in DOMAIN mask |->
                         Moins(d[mask[j]][ANNEE_PRIMO], d[mask[j]][ANNEE_RCS])])
            ELSE QNaN
    IN  [nb |-> nb_projets,
         total |-> AsType_int(Dec(somme)),
         delai |-> IF ecart_moyen.k # "nan"
                   THEN [na |-> FALSE, c |-> Round2(ecart_moyen)]
                   ELSE [na |-> TRUE, c |-> 0]]

\* "Oui" read as any non-zero flag
FiltreChoixTruthy(d, col, ch, label_oui, label_non) ==
    IF ch = label_oui THEN SelectSeq(TousLesRangs(d), LAMBDA i : d[i][col] # 0)
    ELSE IF ch = label_non
    THEN SelectSeq(TousLesRangs(d), LAMBDA i : d[i][col] = 0)
    ELSE TousLesRangs(d)

\* the radio of a themed section
FiltreChoix(d, col, ch, label_oui, label_non) ==
    IF ch = label_oui THEN SelectSeq(TousLesRangs(d), LAMBDA i : d[i][col] = 1)
    ELSE IF ch = label_non
    THEN SelectSeq(TousLesRangs(d), LAMBDA i : d[i][col] = 0)
    ELSE TousLesRangs(d)

\* the radio of the origin section
FiltreExoEndo(d, ch) ==
    IF ch = EXOGENE THEN SelectSeq(TousLesRangs(d), LAMBDA i : d[i][EXOGENE] = 1)
    ELSE IF ch = ENDOGENE
    THEN SelectSeq(TousLesRangs(d), LAMBDA i : d[i][ENDOGENE] = 1)
    ELSE TousLesRangs(d)

\* the three tables whatever the number of retained rows
RapportSansGarde(d, rows, ref) ==
    [affiche |-> {"age", "tranches", "pct"},
     age |-> TableAge(d, rows, ref),
     tranches |-> TableTranches(d, rows),
     pct |-> Pct(TableTranches(d, rows), bins_labels)]

\* what a themed section displays for the retained rows: nothing when
\* there are none, else the three tables
Rapport(d, rows, ref) ==
    IF Len(rows) = 0
    THEN [affiche |-> {}, age |-> <<>>, tranches |-> <<>>, pct |-> <<>>]
    ELSE [affiche |-> {"age", "tranches", "pct"},
          age |-> TableAge(d, rows, ref),
          tranches |-> TableTranches(d, rows),
          pct |-> Pct(TableTranches(d, rows), bins_labels)]

\* the five analyse_par_filtre calls, in script order
Appels ==
    << [col |-> INDUS, oui |-> "1", non |-> "0"],
       [col |-> NUMERIQUE, oui |-> "1", non |-> "0"],
       [col |-> SANTE, oui |-> "1", non |-> "0"],
       [col |-> DEEPTECH_BPI, oui |-> "Oui", non |-> "Non"],
       [col |-> LIEN, oui |-> "Oui", non |-> "Non"] >>

Vide == <<>>

Init ==
    /\ prog = "app"
    /\ pc = "upload"
    /\ columns = {}
    /\ df = Vide
    /\ erreur = Vide
    /\ stats = Vide
    /\ annee_ref = ""
    /\ appel = 1
    /\ section = ""
    /\ choix = ""
    /\ retenus = Vide
    /\ affiche = {}
    /\ table_age = Vide
    /\ df_tranches = Vide
    /\ df_tranches_pct = Vide
    /\ synthese = Vide
    /\ synthese_filiere = Vide
    /\ selection = Vide
    /\ montant_total = 0
    /\ montant_moyen = QNaN
    /\ tableau = Vide

App2Vars == <<synthese, synthese_filiere, selection, montant_total,
              montant_moyen, tableau>>
TableVars == <<section, choix, retenus, affiche, table_age, df_tranches,
               df_tranches_pct>>

\* df = pd.read_excel(uploaded_file)
ReadExcel ==
    /\ prog = "app" /\ pc = "upload"
    /\ \E abs \in ColonnesAbsentes : columns' = Universe \ abs
    /\ pc' = "colonnes"
    /\ UNCHANGED <<prog, df, erreur, stats, annee_ref, appel>>
    /\ UNCHANGED TableVars /\ UNCHANGED App2Vars

\* the required-columns check: st.error and st.stop when a column is absent
VerifColonnes ==
    /\ prog = "app" /\ pc = "colonnes"
    /\ LET missing_cols == MissingCols(columns)
       IN  IF Len(missing_cols) > 0
           THEN erreur' = missing_cols /\ pc' = "stop"
           ELSE erreur' = erreur /\ pc' = "pretraitements"
    /\ UNCHANGED <<prog, columns, df, stats, annee_ref, appel>>
    /\ UNCHANGED TableVars /\ UNCHANGED App2Vars

\* the pre-processing loops; the cells of the table are read here first
Pretraitements ==
    /\ prog = "app" /\ pc = "pretraitements"
    /\ \E raw \in Tables(RawRows) : df' = PreTraitement(raw)
    /\ pc' = "stats"
    /\ UNCHANGED <<prog, columns, erreur, stats, annee_ref, appel>>
    /\ UNCHANGED TableVars /\ UNCHANGED App2Vars

\* the gap columns and the global statistics table
Stats ==
    /\ prog = "app" /\ pc = "stats"
    /\ df' = AvecEcarts(df)
    /\ stats' = [annee \in Annees |-> StatsAnnee(df, annee)]
    /\ pc' = "age_global"
    /\ UNCHANGED <<prog, columns, erreur, annee_ref, appel>>
    /\ UNCHANGED TableVars /\ UNCHANGED App2Vars

\* the reference-year radio and the global age table
TableAgeGlobal ==
    /\ prog = "app" /\ pc = "age_global"
    /\ \E ref \in {ANNEE_RCS, ANNEE_INCUB} :
          /\ annee_ref' = ref
          /\ table_age' = TableAge(df, TousLesRangs(df), ref)
    /\ section' = "global" /\ choix' = "Tous"
    /\ retenus' = TousLesRangs(df)
    /\ affiche' = {"age"}
    /\ pc' = "tranches_global"
    /\ UNCHANGED <<prog, columns, df, erreur, stats, appel, df_tranches,
                   df_tranches_pct>>
    /\ UNCHANGED App2Vars

\* the global amount table and its percentage view
TranchesGlobal ==
    /\ prog = "app" /\ pc = "tranches_global"
    /\ df_tranches' = TableTranches(df, retenus)
    /\ df_tranches_pct' = Pct(TableTranches(df, retenus), bins_labels)
    /\ affiche' = {"age", "tranches", "pct"}
    /\ pc' = "filtres"
    /\ UNCHANGED <<prog, columns, df, erreur, stats, annee_ref, appel, section,
                   choix, retenus, table_age>>
    /\ UNCHANGED App2Vars

\* one call of analyse_par_filtre
AnalyseParFiltre ==
    /\ prog = "app" /\ pc = "filtres"
    /\ LET a == Appels[appel]
       IN  \E ch \in {"Tous", a.oui, a.non} :
              LET df_filtre == FiltreChoix(df, a.col, ch, a.oui, a.non)
                  r == Rapport(df, df_filtre, annee_ref)
              IN  /\ section' = a.col
                  /\ choix' = ch
                  /\ retenus' = df_filtre
                  /\ affiche' = r.affiche
                  /\ table_age' = r.age
                  /\ df_tranches' = r.tranches
                  /\ df_tranches_pct' = r.pct
    /\ IF appel < Len(Appels)
       THEN appel' = appel + 1 /\ pc' = pc
       ELSE appel' = appel /\ pc' = "exoendo"
    /\ UNCHANGED <<prog, columns, df, erreur, stats, annee_ref>>
    /\ UNCHANGED App2Vars

\* the origin section
ExoEndo ==
    /\ prog = "app" /\ pc = "exoendo"
    /\ \E ch \in {"Tous", EXOGENE, ENDOGENE} :
          LET df_exoendo == FiltreExoEndo(df, ch)
              r == Rapport(df, df_exoendo, annee_ref)
          IN  /\ section' = "exoendo"
              /\ choix' = ch
              /\ retenus' = df_exoendo
              /\ affiche' = r.affiche
              /\ table_age' = r.age
              /\ df_tranches' = r.tranches
              /\ df_tranches_pct' = r.pct
    /\ pc' = "done"
    /\ UNCHANGED <<prog, columns, df, erreur, stats, annee_ref, appel>>
    /\ UNCHANGED App2Vars

Next ==
    \/ ReadExcel
    \/ VerifColonnes
    \/ Pretraitements
    \/ Stats
    \/ TableAgeGlobal
    \/ TranchesGlobal
    \/ AnalyseParFiltre
    \/ ExoEndo

Spec == Init /\ [][Next]_vars

-----------------------------------------------------------------------------------------------------------------------------------------------------
(* app2.py *)

filieres == <<INDUS, NUMERIQUE, SANTE>>
categories == <<ENDOGENE, EXOGENE, LIEN, DEEPTECH>>

\* the columns app2.py reads
Colonnes2 == Range(year_cols) \cup Range(filieres) \cup Range(categories)

RawRow2(cells) ==
    LET ordre == year_cols \o filieres \o <<DEEPTECH, LIEN, ENDOGENE, EXOGENE>>
    IN  [c \in Colonnes2 |->
            cells[CHOOSE i \in DOMAIN ordre : ordre[i] = c]]

\* 2021..2024 | Indus, Numerique, Sante | Deeptech, Lien, ENDOGENE, EXOGENE
RawRows2 ==
    { RawRow2(<<CellNum(600000), CellVide, CellVide, CellNum(1200000),
                CellNum(1), CellNum(0), CellNum(0),
                CellNum(1), CellNum(0), CellNum(1), CellNum(0)>>),
      RawRow2(<<CellVide, CellNum(500000), CellTexte, CellVide,
                CellNum(0), CellNum(1), CellNum(0),
                CellNum(0), CellNum(1), CellNum(0), CellNum(1)>>),
      RawRow2(<<CellVide, CellVide, CellVide, CellVide,
                CellNum(0), CellNum(0), CellNum(1),
                CellNum(1), CellNum(1), CellNum(1), CellNum(1)>>),
      RawRow2(<<CellNum(0), CellDec(1500005), CellVide, CellVide,
                CellNum(1), CellNum(1), CellNum(0),
                CellNum(2), CellVide, CellNum(0), CellNum(0)>>),
      RawRow2(<<CellVide, CellVide, CellNum(300000), CellVide,
                CellNum(0), CellNum(0), CellNum(0),
                CellTexte, CellNum(1), CellNum(1), CellNum(0)>>) }

\* columns a table uploaded to app2.py may lack
ColonnesAbsentes2 == SUBSET {ColMontant(2021), NUMERIQUE, DEEPTECH}

\* df[col] = pd.to_numeric(df[col], errors='coerce') on the amount columns
\* of one row; the other columns stay raw, absent columns have no cell
ConvertRow(r, cols) ==
    [c \in DOMAIN r \cap cols |->
        IF c \in Range(year_cols) THEN ToNumeric(r[c]) ELSE r[c]]

\* cell == 1 on a raw cell: a number equal to 1
Eq1(c) == c.k = "num" /\ c.t = 10

\* the non-null amounts of the rows `rows` in the column of `annee`
Montants(d, rows, annee) ==
    LET col == ColMontant(annee)
        ok == SelectSeq(rows, LAMBDA i : ~d[i][col].nan)
    IN  [j \in DOMAIN ok |-> d[ok[j]][col]]

RECURSIVE Flatten(_)
Flatten(ss) == IF ss = <<>> THEN <<>> ELSE Head(ss) \o Flatten(Tail(ss))

\* the non-null amounts of the rows `rows`, all years together
TousMontants(d, rows) ==
    Flatten([a \in DOMAIN annees_levee |-> Montants(d, rows, annees_levee[a])])

SumT(xs) == SumSeq([j \in DOMAIN xs |-> xs[j].t])

\* df_levees.groupby('Annee'): one row per year that has an event
Synthese(d) ==
    LET presentes == {annee \in Annees :
                         Len(Montants(d, TousLesRangs(d), annee)) > 0}
    IN  [annee \in presentes |->
            LET ms == Montants(d, TousLesRangs(d), annee)
            IN  [nb |-> Len(ms), total |-> SumT(ms), moyen |-> Mean(ms)]]

\* synthese_filiere.loc[nom]: count, total and mean in hundredths
SyntheseFiliere(d, col_filiere) ==
    LET fdf == SelectSeq(TousLesRangs(d), LAMBDA i : Eq1(d[i][col_filiere]))
        montants == TousMontants(d, fdf)
    IN  IF Len(montants) > 0
        THEN [nb |-> Len(montants), total |-> 10 * SumT(montants),
              moyen |-> Round2(Mean(montants))]
        ELSE [nb |-> 0, total |-> 0, moyen |-> 0]

\* the sector mask applied by position in the current frame
MasqueParPosition(d, rows, sel) ==
    IF Len(sel.filiere) = 0 THEN rows
    ELSE LET pos == SelectSeq([p \in DOMAIN rows |-> p],
                        LAMBDA p : \E j \in DOMAIN sel.filiere :
                                      Eq1(d[p][sel.filiere[j]]))
         IN  [j \in DOMAIN pos |-> rows[pos[j]]]

Front(s) == SubSeq(s, 1, Len(s) - 1)

RECURSIVE MaskAll(_, _, _)
\* the selected sectors combined with & from an all-True mask
MaskAll(d, tags, i) ==
    IF tags = <<>> THEN TRUE
    ELSE Eq1(d[i][Head(tags)]) /\ MaskAll(d, Tail(tags), i)

RECURSIVE MaskAny(_, _, _)
\* mask = False; for f in selected_filiere: mask = mask | (df[f] == 1),
\* at row i
MaskAny(d, tags, i) ==
    IF tags = <<>> THEN FALSE
    ELSE MaskAny(d, Front(tags), i) \/ Eq1(d[i][tags[Len(tags)]])

\* the sector criterion: filtre[mask], the mask being indexed like df
CritFiliere(d, rows, sel) ==
    IF Len(sel.filiere) = 0 THEN rows
    ELSE SelectSeq(rows, LAMBDA i : MaskAny(d, sel.filiere, i))

CritDeeptech(d, rows, sel) ==
    IF sel.deeptech THEN SelectSeq(rows, LAMBDA i : Eq1(d[i][DEEPTECH]))
    ELSE rows

CritLien(d, rows, sel) ==
    IF sel.lien THEN SelectSeq(rows, LAMBDA i : Eq1(d[i][LIEN]))
    ELSE rows

CritOrigine(d, rows, sel) ==
    IF sel.endo_exo = "Endogene"
    THEN SelectSeq(rows, LAMBDA i : Eq1(d[i][ENDOGENE]))
    ELSE IF sel.endo_exo = "Exogene"
    THEN SelectSeq(rows, LAMBDA i : Eq1(d[i][EXOGENE]))
    ELSE rows

\* the columns a criterion reads under a selection
ColonnesLues(c, sel) ==
    CASE c = "filiere" -> Range(sel.filiere)
      [] c = "deeptech" -> IF sel.deeptech THEN {DEEPTECH} ELSE {}
      [] c = "lien" -> IF sel.lien THEN {LIEN} ELSE {}
      [] c = "origine" -> IF sel.endo_exo = "Endogene" THEN {ENDOGENE}
                          ELSE IF sel.endo_exo = "Exogene" THEN {EXOGENE}
                          ELSE {}

Critere(c, d, rows, sel) ==
    CASE c = "filiere" -> CritFiliere(d, rows, sel)
      [] c = "deeptech" -> CritDeeptech(d, rows, sel)
      [] c = "lien" -> CritLien(d, rows, sel)
      [] c = "origine" -> CritOrigine(d, rows, sel)

RECURSIVE Filtrer(_, _, _, _, _)
\* the criteria applied one after the other in the order `ordre`; reading
\* an absent column raises KeyError
Filtrer(ordre, d, cols, rows, sel) ==
    IF ordre = <<>> THEN [err |-> Vide, rows |-> rows]
    ELSE LET absentes == ColonnesLues(Head(ordre), sel) \ cols
         IN  IF absentes # {}
             THEN [err |-> <<CHOOSE c \in absentes : TRUE>>, rows |-> Vide]
             ELSE Filtrer(Tail(ordre), d, cols,
                          Critere(Head(ordre), d, rows, sel), sel)

\* the order of the script: sector, deep-tech, research link, origin
OrdreScript == <<"filiere", "deeptech", "lien", "origine">>

\* the values st.multiselect can return, in the order of the options
ChoixFilieres ==
    { <<>>, <<INDUS>>, <<NUMERIQUE>>, <<SANTE>>, <<INDUS, NUMERIQUE>>,
      <<INDUS, SANTE>>, <<NUMERIQUE, SANTE>>, <<INDUS, NUMERIQUE, SANTE>> }

Selections ==
    [filiere : ChoixFilieres, deeptech : BOOLEAN, lien : BOOLEAN,
     endo_exo : {"Tous", "Endogene", "Exogene"}]

\* one cell group of the detail table
DetailCellule(d, fdf, cat_col, annee) ==
    LET cdf == SelectSeq(fdf, LAMBDA i : Eq1(d[i][cat_col]))
        total_projets == IF Len(fdf) > 0 THEN Len(fdf) ELSE 1
        ms == Montants(d, cdf, annee)
    IN  [montant |-> SumT(ms), nb_proj |-> Len(ms),
         pct |-> Q(100 * Len(ms), total_projets)]

Tableau(d, col_filiere) ==
    LET fdf == SelectSeq(TousLesRangs(d), LAMBDA i : Eq1(d[i][col_filiere]))
    IN  [cat \in Range(categories) |->
            [annee \in Annees |-> DetailCellule(d, fdf, cat, annee)]]

Init2 ==
    /\ prog = "app2"
    /\ pc = "upload"
    /\ columns = {}
    /\ df = Vide
    /\ erreur = Vide
    /\ stats = Vide
    /\ annee_ref = ""
    /\ appel = 1
    /\ section = ""
    /\ choix = ""
    /\ retenus = Vide
    /\ affiche = {}
    /\ table_age = Vide
    /\ df_tranches = Vide
    /\ df_tranches_pct = Vide
    /\ synthese = Vide
    /\ synthese_filiere = Vide
    /\ selection = Vide
    /\ montant_total = 0
    /\ montant_moyen = QNaN
    /\ tableau = Vide

AppVars == <<stats, annee_ref, appel, choix, affiche, table_age, df_tranches,
             df_tranches_pct>>

\* df = pd.read_csv(...) or pd.read_excel(...)
ReadFile ==
    /\ prog = "app2" /\ pc = "upload"
    /\ \E abs \in ColonnesAbsentes2 : columns' = Universe \ abs
    /\ pc' = "montants"
    /\ UNCHANGED <<prog, df, erreur, section, retenus>>
    /\ UNCHANGED AppVars /\ UNCHANGED App2Vars

\* the conversion of the amount columns; the cells of the table are read
\* here first
ConvertMontants ==
    /\ prog = "app2" /\ pc = "montants"
    /\ section' = "montants"
    /\ IF Range(year_cols) \subseteq columns
       THEN /\ \E raw \in Tables(RawRows2) :
                  df' = [i \in DOMAIN raw |-> ConvertRow(raw[i], columns)]
            /\ pc' = "synthese" /\ erreur' = erreur
       ELSE /\ pc' = "KeyError" /\ df' = df
            /\ erreur' = <<Head(SelectSeq(year_cols,
                                         LAMBDA c : c \notin columns))>>
    /\ UNCHANGED <<prog, columns, retenus>>
    /\ UNCHANGED AppVars /\ UNCHANGED App2Vars

\* the yearly synthesis: grouping an empty list of events by 'Annee'
\* raises KeyError
SyntheseGenerale ==
    /\ prog = "app2" /\ pc = "synthese"
    /\ section' = "synthese"
    /\ IF Len(TousMontants(df, TousLesRangs(df))) = 0
       THEN pc' = "KeyError" /\ erreur' = <<"Annee">> /\ synthese' = synthese
       ELSE pc' = "filieres" /\ erreur' = erreur /\ synthese' = Synthese(df)
    /\ UNCHANGED <<prog, columns, df, retenus, synthese_filiere, selection,
                   montant_total, montant_moyen, tableau>>
    /\ UNCHANGED AppVars

\* the sector synthesis
SyntheseParFiliere ==
    /\ prog = "app2" /\ pc = "filieres"
    /\ section' = "filieres"
    /\ LET absentes == SelectSeq(filieres, LAMBDA c : c \notin columns)
       IN  IF Len(absentes) > 0
           THEN /\ pc' = "KeyError" /\ erreur' = <<Head(absentes)>>
                /\ synthese_filiere' = synthese_filiere
           ELSE /\ pc' = "filtres" /\ erreur' = erreur
                /\ synthese_filiere' =
                      [f \in Range(filieres) |-> SyntheseFiliere(df, f)]
    /\ UNCHANGED <<prog, columns, df, retenus, synthese, selection,
                   montant_total, montant_moyen, tableau>>
    /\ UNCHANGED AppVars

\* the four filter widgets, the row count and the two filtered metrics
Filtres ==
    /\ prog = "app2" /\ pc = "filtres"
    /\ section' = "filtres"
    /\ \E sel \in Selections :
          LET r == Filtrer(OrdreScript, df, columns, TousLesRangs(df), sel)
          IN  /\ selection' = sel
              /\ IF r.err # Vide
                 THEN /\ pc' = "KeyError" /\ erreur' = r.err
                      /\ UNCHANGED <<retenus, montant_total, montant_moyen>>
                 ELSE /\ pc' = "detail" /\ erreur' = erreur
                      /\ retenus' = r.rows
                      /\ montant_total' = SumT(TousMontants(df, r.rows))
                      /\ montant_moyen' = Mean(TousMontants(df, r.rows))
    /\ UNCHANGED <<prog, columns, df, synthese, synthese_filiere, tableau>>
    /\ UNCHANGED AppVars

\* the detail tables, one per sector
Detail ==
    /\ prog = "app2" /\ pc = "detail"
    /\ section' = "detail"
    /\ LET absentes == SelectSeq(categories, LAMBDA c : c \notin columns)
       IN  IF Len(absentes) > 0
           THEN /\ pc' = "KeyError" /\ erreur' = <<Head(absentes)>>
                /\ tableau' = tableau
           ELSE /\ pc' = "done" /\ erreur' = erreur
                /\ tableau' = [f \in Range(filieres) |-> Tableau(df, f)]
    /\ UNCHANGED <<prog, columns, df, retenus, synthese, synthese_filiere,
                   selection, montant_total, montant_moyen>>
    /\ UNCHANGED AppVars

Next2 ==
    \/ ReadFile
    \/ ConvertMontants
    \/ SyntheseGenerale
    \/ SyntheseParFiliere
    \/ Filtres
    \/ Detail

Spec2 == Init2 /\ [][Next2]_vars

-----
(* Properties of app.py *)

\* edges[i] <= x < edges[i+1]
InBucket(x, edges, i) == EdgeLe(edges[i], x) /\ ~EdgeLe(edges[i + 1], x)

Retenus == Range(retenus)

\* retained rows with a qualifying amount in `annee`
Qualifiants(annee) == {i \in Retenus : Gt0(df[i][ColMontant(annee)])}

\* the age at funding of row i in `annee`
Age(i, annee) == Moins(Num(annee), df[i][annee_ref])

\* C1: in the age and amount tables, the count of bucket i is the number of
\* qualifying retained rows whose value v satisfies edges[i] <= v <
\* edges[i+1], and each finite value lies in exactly one bucket, so a value
\* on an edge is counted in the bucket above it.
C1_Buckets ==
    /\ "tranches" \in affiche =>
          \A annee \in Annees :
             /\ \A b \in DOMAIN bins_labels :
                   df_tranches[annee][bins_labels[b]] =
                      Cardinality({i \in Qualifiants(annee) :
                          InBucket(df[i][ColMontant(annee)], bins_edges, b)})
             /\ \A i \in Qualifiants(annee) :
                   Cardinality({b \in DOMAIN bins_labels :
                       InBucket(df[i][ColMontant(annee)], bins_edges, b)}) = 1
    /\ "age" \in affiche =>
          \A annee \in Annees :
             /\ \A b \in DOMAIN age_bins_labels :
                   table_age[annee][age_bins_labels[b]] =
                      Cardinality({i \in Qualifiants(annee) :
                          /\ ~Age(i, annee).nan
                          /\ InBucket(Age(i, annee), age_bins_edges, b)})
             /\ \A i \in Qualifiants(annee) :
                   ~Age(i, annee).nan =>
                      Cardinality({b \in DOMAIN age_bins_labels :
                          InBucket(Age(i, annee), age_bins_edges, b)}) = 1

\* an amount of exactly 500000 counted in "500k-1M" with "<500k" empty, and
\* an age of exactly 1 counted in "1-2 ans" with "<1 an" empty
C1_Witness ==
    /\ affiche = {"age", "tranches", "pct"}
    /\ \E annee \in Annees :
          /\ \E i \in Qualifiants(annee) :
                df[i][ColMontant(annee)] = Num(500000)
          /\ df_tranches[annee]["500k-1M"] >= 1
          /\ df_tranches[annee]["<500k"] = 0
    /\ \E annee \in Annees :
          /\ \E i \in Qualifiants(annee) : Age(i, annee) = Num(1)
          /\ table_age[annee]["1-2 ans"] >= 1
          /\ table_age[annee]["<1 an"] = 0

RECURSIVE QSum(_)
\* the sum of a sequence of quotients [n, d], as a quotient
QSum(qs) ==
    IF qs = <<>> THEN Q(0, 1)
    ELSE LET r == QSum(Tail(qs))
         IN  Q(Head(qs).n * r.d + r.n * Head(qs).d, Head(qs).d * r.d)

\* C3: in every displayed percentage table, no cell is NaN and none comes
\* from a division by zero, every cell lies in [0, 100], the cells of a year
\* add up to 100 when the year's count total is not 0, and are all 0 when
\* it is 0.
C3_Pct ==
    "pct" \in affiche =>
       \A annee \in Annees :
          LET total == ColSum(df_tranches[annee], bins_labels)
              col == df_tranches_pct[annee]
              somme == QSum([b \in DOMAIN bins_labels |-> col[bins_labels[b]]])
          IN  /\ \A l \in Range(bins_labels) :
                    /\ col[l].k = "num" /\ col[l].d > 0
                    /\ 0 <= col[l].n /\ col[l].n <= 100 * col[l].d
              /\ total # 0 => somme.n = 100 * somme.d
              /\ total = 0 => \A l \in Range(bins_labels) : col[l].n = 0

\* a percentage table with an empty year and a year split over two buckets
C3_Witness ==
    /\ "pct" \in affiche
    /\ \E annee \in Annees : ColSum(df_tranches[annee], bins_labels) = 0
    /\ \E annee \in Annees :
          \E l1, l2 \in Range(bins_labels) :
             /\ l1 # l2
             /\ df_tranches_pct[annee][l1] = Q(100, 2)
             /\ df_tranches_pct[annee][l2] = Q(100, 2)

-----------------------------------------------------------------------------
(* Properties of app2.py *)

\* every order in which the four criteria can be applied
Ordres ==
    {o \in [1..4 -> Range(OrdreScript)] : \A i, j \in 1..4 : i # j => o[i] # o[j]}

\* the filter block of app2.py has run
FiltresFaits == prog = "app2" /\ section \in {"filtres", "detail"}

\* the filter block raised KeyError
FiltresEnErreur == section = "filtres" /\ pc = "KeyError"

\* C4: whatever the order in which the sector, deep-tech, research-link
\* and origin criteria are applied, the rows retained are those the script
\* retains (and reading an absent column fails in every order); the
\* retained rows are the rows each criterion retains on its own.
C4_Commutative ==
    FiltresFaits =>
       LET tous == TousLesRangs(df)
       IN  /\ \A o \in Ordres :
                 LET r == Filtrer(o, df, columns, tous, selection)
                 IN  IF FiltresEnErreur THEN r.err # Vide
                     ELSE r.err = Vide /\ r.rows = retenus
           /\ ~FiltresEnErreur =>
                 Retenus = {i \in DOMAIN df :
                               \A c \in Range(OrdreScript) :
                                  i \in Range(Critere(c, df, tous, selection))}

\* a sector and an origin criterion that each drop a row the other keeps
C4_Witness ==
    /\ FiltresFaits /\ ~FiltresEnErreur
    /\ Len(selection.filiere) > 0 /\ selection.endo_exo # "Tous"
    /\ LET tous == TousLesRangs(df)
           parFiliere == Range(CritFiliere(df, tous, selection))
           parOrigine == Range(CritOrigine(df, tous, selection))
       IN  /\ parFiliere \ parOrigine # {}
           /\ parOrigine \ parFiliere # {}

\* the rows positive on at least one of the tags
AuMoinsUn(tags) == {i \in DOMAIN df : \E f \in Range(tags) : Eq1(df[i][f])}

SelFiliere(tags) ==
    [filiere |-> tags, deeptech |-> FALSE, lien |-> FALSE, endo_exo |-> "Tous"]

\* the sector criterion: all rows without a tag, else the rows positive on
\* at least one selected tag
SectorRule ==
    (FiltresFaits /\ ~FiltresEnErreur /\ ~selection.deeptech /\ ~selection.lien
        /\ selection.endo_exo = "Tous") =>
       Retenus = IF Len(selection.filiere) = 0 THEN DOMAIN df
                 ELSE AuMoinsUn(selection.filiere)

\* C10 as stated: the sector rule, and any selection with more tags
\* retains at least the rows of a selection with fewer tags.
C10_AsStated ==
    /\ SectorRule
    /\ FiltresFaits =>
          \A S, T \in ChoixFilieres :
             Range(S) \subseteq Range(T) =>
                Range(CritFiliere(df, TousLesRangs(df), SelFiliere(S)))
                   \subseteq Range(CritFiliere(df, TousLesRangs(df), SelFiliere(T)))

\* C10 amended: the sector rule, and any selection with more tags retains
\* at least the rows of a non-empty selection with fewer tags.
C10_Amended ==
    /\ SectorRule
    /\ FiltresFaits =>
          \A S, T \in ChoixFilieres :
             (Len(S) > 0 /\ Range(S) \subseteq Range(T)) =>
                Range(CritFiliere(df, TousLesRangs(df), SelFiliere(S)))
                   \subseteq Range(CritFiliere(df, TousLesRangs(df), SelFiliere(T)))

\* two tags selected alone: a row positive on the second tag only is
\* retained, a row positive on neither is not
C10_Witness ==
    /\ FiltresFaits /\ ~FiltresEnErreur
    /\ ~selection.deeptech /\ ~selection.lien /\ selection.endo_exo = "Tous"
    /\ Len(selection.filiere) = 2
    /\ \E i \in Retenus :
          ~Eq1(df[i][selection.filiere[1]]) /\ Eq1(df[i][selection.filiere[2]])
    /\ \E i \in DOMAIN df : i \notin Retenus

\* C6 as stated: a table that lacks a column the script reads is refused
\* before any cell is processed, with every absent column named; a
\* complete table is not refused; no KeyError is raised later on.
C6_AsStated ==
    LET requises == IF prog = "app" THEN Range(required_columns) ELSE Colonnes2
        manquantes == requises \ columns
    IN  pc # "upload" =>
           /\ manquantes # {} =>
                 /\ pc \in {"colonnes", "montants", "stop"}
                 /\ df = Vide
                 /\ pc = "stop" => Range(erreur) = manquantes
           /\ manquantes = {} => pc # "stop"
           /\ pc # "KeyError"

\* C7 as stated: the summary table has a row for every funding year, with
\* the mean "N/A" when the year's count is 0 and a number otherwise, and
\* building it raises nothing.
C7_AsStated ==
    /\ (prog = "app" /\ pc \notin {"upload", "colonnes", "stop",
                                   "pretraitements", "stats"}) =>
          \A annee \in Annees :
             /\ annee \in DOMAIN stats
             /\ stats[annee].delai.na <=> stats[annee].nb = 0
    /\ (prog = "app2" /\ section = "synthese") =>
          /\ pc # "KeyError"
          /\ \A annee \in Annees :
                /\ annee \in DOMAIN synthese
                /\ synthese[annee].nb > 0
                /\ synthese[annee].moyen.k = "num"

====
